---- MODULE Spec2Model ----
(***************************************************************************)
(* A model of the TeX-like macro preprocessor of src/src/main.rs:          *)
(* preproc_text (comment stripping), expand_macro (argument substitution), *)
(* process_str (the expansion engine, one action per mode of its match),   *)
(* read_file and main (the single emission to standard output, or the      *)
(* diagnostic).  Text is a sequence of one-character strings.  A Rust      *)
(* String used as a stack (the reversed input) is a sequence whose LAST    *)
(* element is the top: pop takes the last element, push_str appends.       *)
(***************************************************************************)
EXTENDS Integers, Sequences, FiniteSets

\* ------------------------------------------------------------ characters

BS == "\\"
LB == "{"
RB == "}"
HASH == "#"
PCT == "%"
NL == "\n"
SP == " "
TAB == "\t"

Letters ==
  {"a","b","c","d","e","f","g","h","i","j","k","l","m","n","o","p","q","r",
   "s","t","u","v","w","x","y","z","A","B","H","X","Y","Z"}

Digits == {"0","1","2","3","4","5","6","7","8","9"}

\* char::is_alphanumeric, on the characters the model uses
IsAlphanumeric(u) == u \in Letters \cup Digits

\* the five scalars a backslash turns into themselves
EscapeSet == {BS, HASH, PCT, LB, RB}

\* ------------------------------------------------------------ text helpers

\* .chars().rev().collect()
Reverse(s) == [i \in 1..Len(s) |-> s[Len(s) - i + 1]]

\* the scalar input.pop() returns, and the string it leaves
Top(s) == s[Len(s)]
Pop(s) == SubSeq(s, 1, Len(s) - 1)

\* the pending text of a reversed stack, in the order it will be consumed
ReadOrder(s) == Reverse(s)

\* mutant: the text is pushed without being reversed
PushNoReverse(stack, x) == stack \o x

\* push_str of text x, reversed so that it is consumed in natural order
PushRev(stack, x) == stack \o Reverse(x)

Grp(x) == <<LB>> \o x \o <<RB>>

\* ------------------------------------------------------------ preproc_text

\* mutant: the line after a comment keeps its leading whitespace
PreprocStepKeepsIndent(s, c) ==
  LET t ==
        IF s.state = "Plain" THEN
          IF c = PCT /\ ~s.prev_is_escaped
            THEN [s EXCEPT !.state = "CommentLine1"]
          ELSE IF c = BS
            THEN [s EXCEPT !.prev_is_escaped = ~s.prev_is_escaped,
                           !.out = Append(s.out, c)]
          ELSE [s EXCEPT !.out = Append(s.out, c), !.prev_is_escaped = FALSE]
        ELSE IF s.state = "CommentLine1" THEN
          IF c = NL
            THEN [s EXCEPT !.state = "CommentLine2", !.prev_is_escaped = FALSE]
          ELSE s
        ELSE [s EXCEPT !.state = "Plain", !.out = Append(s.out, c)]
  IN IF c # BS THEN [t EXCEPT !.prev_is_escaped = FALSE] ELSE t

\* lines 47-78: the body of the loop for one character c; s holds state,
\* prev_is_escaped and preprocessed_str
PreprocStep(s, c) ==
  LET t ==
        IF s.state = "Plain" THEN
          IF c = PCT /\ ~s.prev_is_escaped
            THEN [s EXCEPT !.state = "CommentLine1"]
          ELSE IF c = BS
            THEN [s EXCEPT !.prev_is_escaped = ~s.prev_is_escaped,
                           !.out = Append(s.out, c)]
          ELSE [s EXCEPT !.out = Append(s.out, c), !.prev_is_escaped = FALSE]
        ELSE IF s.state = "CommentLine1" THEN
          IF c = NL
            THEN [s EXCEPT !.state = "CommentLine2", !.prev_is_escaped = FALSE]
          ELSE s
        ELSE \* CommentLine2
          IF c # SP /\ c # TAB
            THEN [s EXCEPT !.state = "Plain", !.out = Append(s.out, c)]
          ELSE IF c = NL THEN [s EXCEPT !.prev_is_escaped = FALSE]
          ELSE s
  IN IF c # BS THEN [t EXCEPT !.prev_is_escaped = FALSE] ELSE t

\* lines 42-44: the loop state preproc_text starts from
PreprocStart == [state |-> "Plain", prev_is_escaped |-> FALSE, out |-> <<>>]

\* the loop of line 46 as a function of the text: loop[i] is the loop state
\* after i characters (used for the text of an included file; the sources of
\* read_file go through the same PreprocStep one character per step)
preproc_text(input_text) ==
  LET loop[i \in 0..Len(input_text)] ==
        IF i = 0 THEN PreprocStart
        ELSE PreprocStep(loop[i - 1], input_text[i])
  IN loop[Len(input_text)].out

\* ------------------------------------------------------------ expand_macro

\* mutant: the escape flag is ignored
IsPlaceholderNoEscape(c, prev_is_escaping_backslash) == c = HASH

\* whether a body scalar is replaced by the argument (line 91)
IsPlaceholder(c, prev_is_escaping_backslash) ==
  c = HASH /\ ~prev_is_escaping_backslash

\* lines 91-101: the body of the loop for one scalar c of the macro body
ExpandStep(a, s, c) ==
  [prev_is_escaping_backslash |-> c = BS /\ ~s.prev_is_escaping_backslash,
   expanded |-> IF IsPlaceholder(c, s.prev_is_escaping_backslash)
                  THEN s.expanded \o a
                  ELSE Append(s.expanded, c)]

\* the loop of line 90 over the body bound to name (a bound name: the caller
\* tests boundness first); loop[i] is the loop state after i scalars
expand_macro(m, name, a) ==
  LET macro_val == m[name]
      loop[i \in 0..Len(macro_val)] ==
        IF i = 0
          THEN [prev_is_escaping_backslash |-> FALSE, expanded |-> <<>>]
          ELSE ExpandStep(a, loop[i - 1], macro_val[i])
  IN loop[Len(macro_val)].expanded

\* ------------------------------------------------------------ inputs

Name(x) == <<BS>> \o x
KwDef == <<"d","e","f">>
KwUndef == <<"u","n","d","e","f">>
KwInclude == <<"i","n","c","l","u","d","e">>
KwExpandAfter == <<"e","x","p","a","n","d","a","f","t","e","r">>
KwIf == <<"i","f">>
KwIfDef == <<"i","f","d","e","f">>

DefText(n, body) == Name(KwDef) \o Grp(n) \o Grp(body)
UndefText(n) == Name(KwUndef) \o Grp(n)
CallText(n, a) == Name(n) \o Grp(a)
IfText(c, t, e) == Name(KwIf) \o Grp(c) \o Grp(t) \o Grp(e)
IfDefText(n, t, e) == Name(KwIfDef) \o Grp(n) \o Grp(t) \o Grp(e)
ExpandAfterText(a, b) == Name(KwExpandAfter) \o Grp(a) \o Grp(b)
IncludeText(p) == Name(KwInclude) \o Grp(p)

\* the number of items a generated document is made of
MaxItems == 2

\* the pieces generated documents are concatenated from: single scalars,
\* whole directives over the names a, b and a few groups, and directives cut
\* short after a group
CondGroups == {<<>>, <<"a">>, Grp(<<>>)}
IfDefNames == {<<"a">>, Grp(<<>>)}
Items ==
  {<<"a">>, <<"!">>, <<BS>>, <<LB>>, <<RB>>, <<HASH>>, <<PCT>>}
  \cup {DefText(<<"a">>, <<HASH, BS, HASH>>),
        DefText(<<"b">>, CallText(<<"a">>, <<HASH>>)),
        UndefText(<<"a">>),
        CallText(<<"a">>, <<"b">>),
        CallText(<<"b">>, <<>>),
        ExpandAfterText(Name(<<"a">>), <<"b">>),
        ExpandAfterText(<<>>, UndefText(<<"a">>)),
        IncludeText(<<"f">>)}
  \cup {Name(KwDef) \o Grp(<<"a">>), Name(KwIf) \o Grp(<<>>),
        Name(KwIf) \o Grp(<<>>) \o Grp(<<"y">>)}
  \cup {IfText(c, <<"y">>, <<"n">>) : c \in CondGroups}
  \cup {IfDefText(n, <<"y">>, <<"n">>) : n \in IfDefNames}

RECURSIVE ItemSeqs(_)
ItemSeqs(k) ==
  IF k = 0 THEN {<<>>}
  ELSE ItemSeqs(k - 1) \cup {s \o it : s \in ItemSeqs(k - 1), it \in Items}

\* the concrete scenarios of the documentation
Greet == <<"g","r","e","e","t">>
Scenario1 ==
  DefText(Greet, <<"H","e","l","l","o",",",SP,HASH,"!">>)
  \o CallText(Greet, <<"w","o","r","l","d">>)
Scenario2 ==
  DefText(<<"a">>, <<"A">>) \o DefText(<<"b">>, CallText(<<"a">>, <<>>))
  \o CallText(<<"b">>, <<>>)
Scenario3 == <<"A", SP, PCT, SP, "c", NL, SP, SP, "B">>
Scenario4 ==
  IfText(<<>>, <<"y","e","s">>, <<"n","o">>)
  \o IfText(<<"x">>, <<"y","e","s">>, <<"n","o">>)
Scenario5 ==
  DefText(<<"m">>, <<"X">>) \o IfDefText(<<"m">>, <<"Y">>, <<"Z">>)
  \o UndefText(<<"m">>) \o IfDefText(<<"m">>, <<"Y">>, <<"Z">>)
Scenario6 ==
  DefText(<<"i","d">>, <<HASH>>)
  \o ExpandAfterText(Name(<<"i","d">>), <<"r","a","w">>)
Scenario6Braced ==
  DefText(<<"i","d">>, <<HASH>>)
  \o ExpandAfterText(Name(<<"i","d">>), Grp(<<"r","a","w">>))
NegRedefine == DefText(<<"a">>, <<"1">>) \o DefText(<<"a">>, <<"2">>)
NegUndef == UndefText(<<"z">>)
NegIncomplete == Name(KwDef) \o Grp(<<"a">>) \o <<LB, "x">>
NegInclude == IncludeText(<<"n","o">>)
UndefThenCall ==
  DefText(<<"m">>, <<"B">>) \o UndefText(<<"m">>) \o CallText(<<"m">>, <<"x">>)

\* a closing brace where the body of \def, or a branch of \if, should open
CloseForBody ==
  Name(KwDef) \o Grp(<<"a">>) \o <<RB, LB, LB, RB>> \o CallText(<<"a">>, <<>>)
CloseForThen == Name(KwIf) \o Grp(<<>>) \o <<RB, LB, LB, RB>> \o Grp(<<"n">>)
CloseForElse ==
  Name(KwIf) \o Grp(<<>>) \o Grp(<<"y">>) \o <<RB, LB, LB, "n", RB>>

\* a definition with nothing between the braces of the name, then tested
EmptyName ==
  DefText(<<>>, <<"x">>) \o IfDefText(<<>>, <<"y">>, <<"n">>)

\* the second group defines the macro that the first group calls
ExpandAfterDefines ==
  ExpandAfterText(CallText(<<"a">>, <<>>), DefText(<<"a">>, <<"A">>))

\* the three directives that push text, on an empty macro table
PushesOnEmptyTable ==
  ExpandAfterText(IfDefText(<<"a">>, <<"y">>, <<"n">>),
                  IfText(<<>>, <<"y">>, <<"n">>))

Scenarios ==
  {Scenario1, Scenario2, Scenario3, Scenario4, Scenario5, Scenario6,
   Scenario6Braced, NegRedefine, NegUndef, NegIncomplete, NegInclude,
   UndefThenCall, CloseForBody, CloseForThen, CloseForElse, EmptyName,
   ExpandAfterDefines, PushesOnEmptyTable}

\* the documents named on the command line (one document stands for standard
\* input as well): one generated or scenario document, or a scenario split
\* over two files
DocLists ==
  {<<d>> : d \in ItemSeqs(MaxItems) \cup Scenarios}
  \cup {<<DefText(<<"a">>, <<"A">>), CallText(<<"a">>, <<>>)>>}

\* the length of the generated texts given to the comment preprocessor
MaxPreLen == 4

\* texts over a letter, the backslash, the percent sign, the newline and the
\* space: every way comments, line ends and escapes can follow each other
PreAlphabet == {"a", BS, PCT, NL, SP}

RECURSIVE PreSeqs(_)
PreSeqs(k) ==
  IF k = 0 THEN {<<>>}
  ELSE PreSeqs(k - 1) \cup {Append(s, c) : s \in PreSeqs(k - 1), c \in PreAlphabet}

\* the documented comment example, written out: A % comment, a newline, two
\* spaces, B
Scenario3Full ==
  <<"A", SP, PCT, SP, "c","o","m","m","e","n","t", NL, SP, SP, "B">>

PreDocLists == {<<d>> : d \in PreSeqs(MaxPreLen) \cup {Scenario3Full}}

\* fs::read_to_string of an \include path: the results it can give.  One file,
\* f, exists; its text holds a comment that preprocessing removes.
FileF == <<"a", PCT, "c", NL, SP, "b">>
ReadToString(path) ==
  IF path = <<"f">> THEN {[ok |-> TRUE, content |-> FileF]}
  ELSE {[ok |-> FALSE, content |-> <<>>]}

\* ------------------------------------------------------------ state

VARIABLES
  docs,           \* read_file: the text of each source (files, or standard input)
  todo,           \* read_file: the sources not yet preprocessed, the scanned
                  \* characters of the first one removed
  pre,            \* preproc_text: state, prev_is_escaped, preprocessed_str
  pc,             \* "start", "run", "returned", "failed", "exit0", "exit1"
  map,            \* the macro table, shared with nested process_str calls
  input,          \* process_str: the reversed input, top at the end
  state,          \* process_str: state
  prev_state,     \* process_str: prev_state
  output,         \* process_str: output
  macro_name,     \* process_str: macro_name
  arg,            \* process_str: arg
  brace_count,    \* process_str: brace_count
  cond_count,     \* process_str: cond_count
  cond_is_empty,  \* process_str: cond_is_empty
  esc,            \* process_str: prev_is_escaping_backslash
  frames,         \* the process_str calls suspended in \expandafter, outermost first
  err,            \* the Err message that ended the run, or "none"
  stdout,         \* the writes made to standard output, in order
  stderr,         \* the writes made to standard error, in order
  directive       \* history: the scalars the running call popped since it last
                  \* left Plain for CallMacro (the text of the directive being
                  \* read, or of the last one read)

vars ==
  <<docs, todo, pre, pc, map, input, state, prev_state, output, macro_name, arg,
    brace_count, cond_count, cond_is_empty, esc, frames, err, stdout, stderr,
    directive>>

EmptyMap == [n \in {} |-> <<>>]

MapInsert(m, k, v) ==
  [n \in DOMAIN m \cup {k} |-> IF n = k THEN v ELSE m[n]]

MapRemove(m, k) == [n \in DOMAIN m \ {k} |-> m[n]]

\* mutant: the nested call works on a macro table of its own
NewFrameOwnTable(m, in) ==
  [state |-> "Plain", prev_state |-> "Plain", output |-> <<>>,
   macro_name |-> <<>>, arg |-> <<>>, brace_count |-> 0, cond_count |-> 0,
   cond_is_empty |-> FALSE, esc |-> FALSE, input |-> in, map |-> EmptyMap,
   upd |-> TRUE, fail |-> "none"]

\* the locals of process_str at its first iteration, for a given input
NewFrame(m, in) ==
  [state |-> "Plain", prev_state |-> "Plain", output |-> <<>>,
   macro_name |-> <<>>, arg |-> <<>>, brace_count |-> 0, cond_count |-> 0,
   cond_is_empty |-> FALSE, esc |-> FALSE, input |-> in, map |-> m,
   upd |-> TRUE, fail |-> "none"]

\* the locals of the running process_str call at the top of an iteration
\* (upd is update_prev_state, fail the Err returned by the iteration, if any)
Frame ==
  [state |-> state, prev_state |-> prev_state, output |-> output,
   macro_name |-> macro_name, arg |-> arg, brace_count |-> brace_count,
   cond_count |-> cond_count, cond_is_empty |-> cond_is_empty, esc |-> esc,
   input |-> input, map |-> map, upd |-> TRUE, fail |-> "none"]

\* prev_state = state; update_prev_state = false; state = s
To(f, s) == [f EXCEPT !.prev_state = f.state, !.upd = FALSE, !.state = s]

\* return Err(msg)
Err(f, msg) == [f EXCEPT !.fail = msg]

\* lines 445-446: the escape flag after a scalar
NextEscape(u, e) == u = BS /\ ~e

\* ------------------------------------------------------------ match arms
\* Each arm maps the locals after the pop (f) and the popped scalar (u) to the
\* locals at the end of the match.

PlainArm(f, u) ==
  IF u = BS /\ ~f.esc THEN To(f, "CallMacro")
  ELSE [f EXCEPT !.output = Append(f.output, u)]

\* the mode a directive name dispatches to
Dispatch(name) ==
  IF name = KwDef THEN "DefMacroName"
  ELSE IF name = KwUndef THEN "Undef"
  ELSE IF name = KwInclude THEN "Include"
  ELSE IF name = KwExpandAfter THEN "ExpandAfterArg1"
  ELSE IF name = KwIf THEN "IfCond"
  ELSE IF name = KwIfDef THEN "IfDefCond"
  ELSE "CustomMacroArg"

\* mutant: an escaped scalar of the escape set keeps its backslash
EscapedArmKeepsBackslash(f, u) ==
  IF ~IsAlphanumeric(u)
    THEN To([f EXCEPT !.output = f.output \o <<BS, u>>], "Plain")
  ELSE IF f.prev_state = "Plain"
    THEN [f EXCEPT !.macro_name = Append(f.macro_name, u)]
  ELSE f

\* (CallMacro, _, true): the scalar right after the backslash
EscapedArm(f, u) ==
  IF u \in EscapeSet
    THEN To([f EXCEPT !.output = Append(f.output, u)], "Plain")
  ELSE IF ~IsAlphanumeric(u)
    THEN To([f EXCEPT !.output = f.output \o <<BS, u>>], "Plain")
  ELSE IF f.prev_state = "Plain"
    THEN [f EXCEPT !.macro_name = Append(f.macro_name, u)]
  ELSE f

CallMacroArm(f, u) ==
  IF f.esc THEN EscapedArm(f, u)
  ELSE IF u = LB THEN
    LET g == [f EXCEPT !.brace_count = f.brace_count + 1,
                       !.prev_state = f.state, !.upd = FALSE,
                       !.state = Dispatch(f.macro_name)]
    IN IF g.state = "CustomMacroArg" THEN g ELSE [g EXCEPT !.macro_name = <<>>]
  ELSE IF IsAlphanumeric(u)
    THEN [f EXCEPT !.macro_name = Append(f.macro_name, u)]
  ELSE Err(f, "Non-alphanumeric in macro name")

DefMacroNameArm(f, u) ==
  IF u = RB
    THEN To([f EXCEPT !.brace_count = f.brace_count - 1], "DefArg")
  ELSE IF ~IsAlphanumeric(u)
    THEN Err(f, "Non-alphanumeric while defining macro name.")
  ELSE [f EXCEPT !.macro_name = Append(f.macro_name, u)]

\* mutant: a bound name is rebound
DefineMacroOverwrite(f) ==
  To([f EXCEPT !.map = MapInsert(f.map, f.macro_name, f.arg),
               !.macro_name = <<>>, !.arg = <<>>], "Plain")

\* lines 218-224: the outer close of the body of \def
DefineMacro(f) ==
  IF f.macro_name \in DOMAIN f.map THEN Err(f, "Macro already defined.")
  ELSE To([f EXCEPT !.map = MapInsert(f.map, f.macro_name, f.arg),
                    !.macro_name = <<>>, !.arg = <<>>], "Plain")

DefArgArm(f, u) ==
  IF u = RB /\ ~f.esc THEN
    LET g == [f EXCEPT !.brace_count = f.brace_count - 1] IN
    IF g.brace_count # 0 THEN [g EXCEPT !.arg = Append(g.arg, u)]
    ELSE DefineMacro(g)
  ELSE IF u = LB /\ ~f.esc THEN
    LET g == [f EXCEPT !.brace_count = f.brace_count + 1] IN
    IF g.prev_state # "DefMacroName" THEN [g EXCEPT !.arg = Append(g.arg, u)]
    ELSE g
  ELSE IF f.prev_state = "DefMacroName" THEN Err(f, "Incomplete macro.")
  ELSE [f EXCEPT !.arg = Append(f.arg, u)]

\* lines 244-250: the outer close of the argument of a user macro
CallUserMacro(f) ==
  IF f.macro_name \notin DOMAIN f.map THEN Err(f, "Macro not defined.")
  ELSE To([f EXCEPT
             !.input = PushRev(f.input, expand_macro(f.map, f.macro_name, f.arg)),
             !.macro_name = <<>>, !.arg = <<>>], "Plain")

CustomMacroArgArm(f, u) ==
  IF u = RB /\ ~f.esc THEN
    LET g == [f EXCEPT !.brace_count = f.brace_count - 1] IN
    IF g.brace_count = 0 THEN CallUserMacro(g)
    ELSE [g EXCEPT !.arg = Append(g.arg, u)]
  ELSE IF u = LB /\ ~f.esc THEN
    [f EXCEPT !.brace_count = f.brace_count + 1, !.arg = Append(f.arg, u)]
  ELSE [f EXCEPT !.arg = Append(f.arg, u)]

\* mutant: the binding is not removed
UndefineMacroKeep(f) ==
  IF f.macro_name \notin DOMAIN f.map THEN Err(f, "Macro not defined.")
  ELSE To([f EXCEPT !.macro_name = <<>>], "Plain")

\* lines 267-273: the outer close of \undef
UndefineMacro(f) ==
  IF f.macro_name \notin DOMAIN f.map THEN Err(f, "Macro not defined.")
  ELSE To([f EXCEPT !.map = MapRemove(f.map, f.macro_name),
                    !.macro_name = <<>>], "Plain")

UndefArm(f, u) ==
  IF u = RB /\ ~f.esc THEN
    LET g == [f EXCEPT !.brace_count = f.brace_count - 1] IN
    IF g.brace_count = 0 THEN UndefineMacro(g)
    ELSE Err(g, "Incomplete macro.")
  ELSE IF ~IsAlphanumeric(u) THEN Err(f, "Non-alphanumeric in un-define.")
  ELSE [f EXCEPT !.macro_name = Append(f.macro_name, u)]

\* res is what fs::read_to_string(&arg) gives when the path group closes
IncludeArm(f, u, res) ==
  IF u = RB /\ ~f.esc THEN
    LET g == [f EXCEPT !.brace_count = f.brace_count - 1] IN
    IF g.brace_count = 0 THEN
      IF res.ok
        THEN To([g EXCEPT !.input = PushRev(g.input, preproc_text(res.content)),
                          !.arg = <<>>], "Plain")
      ELSE Err(g, "Include error.")
    ELSE [g EXCEPT !.arg = Append(g.arg, u)]
  ELSE IF u = LB /\ ~f.esc THEN [f EXCEPT !.brace_count = f.brace_count + 1]
  ELSE [f EXCEPT !.arg = Append(f.arg, u)]

ExpandAfterArg1Arm(f, u) ==
  IF u = RB /\ ~f.esc THEN
    LET g == [f EXCEPT !.brace_count = f.brace_count - 1] IN
    IF g.brace_count = 0 THEN To(g, "ExpandAfterArg2")
    ELSE [g EXCEPT !.macro_name = Append(g.macro_name, u)]
  ELSE IF u = LB /\ ~f.esc THEN
    [f EXCEPT !.brace_count = f.brace_count + 1,
              !.macro_name = Append(f.macro_name, u)]
  ELSE [f EXCEPT !.macro_name = Append(f.macro_name, u)]

\* the arms of ExpandAfterArg2 other than the outer close, which calls
\* process_str (actions ExpandAfterArg2 and ExpandAfterReturn)
ExpandAfterArg2Arm(f, u) ==
  IF u = RB /\ ~f.esc THEN
    LET g == [f EXCEPT !.brace_count = f.brace_count - 1] IN
    [g EXCEPT !.arg = Append(g.arg, u)]
  ELSE IF u = LB /\ ~f.esc THEN
    LET g == [f EXCEPT !.brace_count = f.brace_count + 1] IN
    IF g.prev_state # "ExpandAfterArg1" THEN [g EXCEPT !.arg = Append(g.arg, u)]
    ELSE g
  ELSE [f EXCEPT !.arg = Append(f.arg, u)]

\* mutant: the first group is pushed before the expanded second group
ExpandAfterPushSwapped(f, processed) ==
  To([f EXCEPT
        !.input = PushRev(PushRev(f.input, f.macro_name), processed),
        !.arg = <<>>, !.macro_name = <<>>], "Plain")

\* lines 341-350: after the nested call returned Ok(processed)
ExpandAfterPush(f, processed) ==
  To([f EXCEPT
        !.input = PushRev(PushRev(f.input, processed), f.macro_name),
        !.arg = <<>>, !.macro_name = <<>>], "Plain")

\* line 365
CondIsEmpty(count) == count = 0

IfCondArm(f, u) ==
  IF u = RB /\ ~f.esc THEN
    LET g == [f EXCEPT !.brace_count = f.brace_count - 1] IN
    IF g.brace_count = 0
      THEN To([g EXCEPT !.cond_is_empty = CondIsEmpty(g.cond_count),
                        !.cond_count = 0], "Then")
    ELSE [g EXCEPT !.cond_count = g.cond_count + 1]
  ELSE IF u = LB /\ ~f.esc THEN
    [f EXCEPT !.brace_count = f.brace_count + 1,
              !.cond_count = f.cond_count + 1]
  ELSE [f EXCEPT !.cond_count = f.cond_count + 1]

\* whether a scalar of the then-group is kept, given cond_is_empty
KeepThen(empty) == ~empty

ThenArm(f, u) ==
  IF u = RB /\ ~f.esc THEN
    LET g == [f EXCEPT !.brace_count = f.brace_count - 1] IN
    IF g.brace_count = 0 THEN To(g, "Else")
    ELSE IF KeepThen(g.cond_is_empty)
      THEN [g EXCEPT !.macro_name = Append(g.macro_name, u)]
    ELSE g
  ELSE IF u = LB /\ ~f.esc THEN
    LET g == [f EXCEPT !.brace_count = f.brace_count + 1] IN
    IF KeepThen(g.cond_is_empty) /\ g.prev_state # "IfCond"
       /\ g.prev_state # "IfDefCond"
      THEN [g EXCEPT !.macro_name = Append(g.macro_name, u)]
    ELSE g
  ELSE IF f.prev_state = "IfCond" \/ f.prev_state = "IfDefCond"
    THEN Err(f, "Incomplete macro.")
  ELSE IF KeepThen(f.cond_is_empty)
    THEN [f EXCEPT !.macro_name = Append(f.macro_name, u)]
  ELSE f

\* mutant: the whole directive is pushed again, not the branch alone
PushBranchDirective(f) ==
  To([f EXCEPT !.input = PushRev(f.input,
                                 IfText(<<>>, f.macro_name, f.macro_name)),
               !.macro_name = <<>>], "Plain")

\* lines 404-409: the outer close of the else-group
PushBranch(f) ==
  To([f EXCEPT !.input = PushRev(f.input, f.macro_name),
               !.macro_name = <<>>], "Plain")

ElseArm(f, u) ==
  IF u = RB /\ ~f.esc THEN
    LET g == [f EXCEPT !.brace_count = f.brace_count - 1] IN
    IF g.brace_count = 0 THEN PushBranch(g)
    ELSE IF g.cond_is_empty
      THEN [g EXCEPT !.macro_name = Append(g.macro_name, u)]
    ELSE g
  ELSE IF u = LB /\ ~f.esc THEN
    LET g == [f EXCEPT !.brace_count = f.brace_count + 1] IN
    IF g.cond_is_empty /\ g.prev_state # "Then"
      THEN [g EXCEPT !.macro_name = Append(g.macro_name, u)]
    ELSE g
  ELSE IF f.prev_state = "Then" THEN Err(f, "Incomplete macro.")
  ELSE IF f.cond_is_empty
    THEN [f EXCEPT !.macro_name = Append(f.macro_name, u)]
  ELSE f

\* mutant: the test of boundness is inverted
IfDefIsEmptyInverted(m, name) == name \in DOMAIN m

\* line 427
IfDefIsEmpty(m, name) == name \notin DOMAIN m

IfDefCondArm(f, u) ==
  IF u = RB /\ ~f.esc THEN
    LET g == [f EXCEPT !.brace_count = f.brace_count - 1] IN
    IF g.brace_count = 0
      THEN To([g EXCEPT !.cond_is_empty = IfDefIsEmpty(g.map, g.macro_name),
                        !.macro_name = <<>>], "Then")
    ELSE [g EXCEPT !.cond_count = g.cond_count + 1]
  ELSE IF u = LB /\ ~f.esc THEN
    [f EXCEPT !.brace_count = f.brace_count + 1,
              !.macro_name = Append(f.macro_name, u)]
  ELSE [f EXCEPT !.macro_name = Append(f.macro_name, u)]

\* mutant: a final lone backslash is not flushed
EndResultNoFlush(st, braces, e, out) ==
  IF st # "Plain" \/ braces # 0 THEN [ok |-> FALSE, out |-> out]
  ELSE [ok |-> TRUE, out |-> out]

\* lines 453-460: the result of process_str once the input is exhausted
EndResult(st, braces, e, out) ==
  IF st # "Plain" \/ braces # 0 THEN
    IF st = "CallMacro" /\ e THEN [ok |-> TRUE, out |-> Append(out, BS)]
    ELSE [ok |-> FALSE, out |-> out]
  ELSE [ok |-> TRUE, out |-> out]

\* ------------------------------------------------------------ actions

Init ==
  /\ docs \in DocLists
  /\ todo = docs
  /\ pre = PreprocStart
  /\ pc = "start"
  /\ map = EmptyMap
  /\ input = <<>>
  /\ state = "Plain"
  /\ prev_state = "Plain"
  /\ output = <<>>
  /\ macro_name = <<>>
  /\ arg = <<>>
  /\ brace_count = 0
  /\ cond_count = 0
  /\ cond_is_empty = FALSE
  /\ esc = FALSE
  /\ frames = <<>>
  /\ err = "none"
  /\ stdout = <<>>
  /\ stderr = <<>>
  /\ directive = <<>>

\* the locals become those of record r (the end of one loop iteration)
SetLocals(r) ==
  /\ state' = r.state
  /\ prev_state' = IF r.upd THEN r.state ELSE r.prev_state
  /\ output' = r.output
  /\ macro_name' = r.macro_name
  /\ arg' = r.arg
  /\ brace_count' = r.brace_count
  /\ cond_count' = r.cond_count
  /\ cond_is_empty' = r.cond_is_empty
  /\ input' = r.input
  /\ map' = r.map

\* the history of the directive text after an iteration that popped u
DirectiveAfter(r, u) ==
  IF state # "Plain" THEN Append(directive, u)
  ELSE IF r.state = "CallMacro" THEN <<u>>
  ELSE directive

\* the end of an iteration that popped u: the Err propagates through every
\* caller to read_file, or the flags are updated (lines 445-451) and the loop
\* goes on
Commit(r, u) ==
  /\ directive' = DirectiveAfter(r, u)
  /\ UNCHANGED <<docs, todo, pre, stdout, stderr>>
  /\ IF r.fail # "none"
       THEN /\ pc' = "failed"
            /\ err' = r.fail
            /\ input' = r.input
            /\ UNCHANGED <<map, state, prev_state, output, macro_name, arg,
                           brace_count, cond_count, cond_is_empty, esc, frames>>
       ELSE /\ SetLocals(r)
            /\ esc' = NextEscape(u, r.esc)
            /\ UNCHANGED <<pc, err, frames>>

\* c = input.pop() gave a scalar and the match is on mode s
Popped(s) == pc = "run" /\ state = s /\ input # <<>>
AfterPop == [Frame EXCEPT !.input = Pop(input)]

\* preproc_text, lines 46-79: one character of the source being preprocessed
PreprocChar ==
  /\ pc = "start" /\ todo # <<>> /\ Head(todo) # <<>>
  /\ pre' = PreprocStep(pre, Head(Head(todo)))
  /\ todo' = <<Tail(Head(todo))>> \o Tail(todo)
  /\ UNCHANGED <<docs, pc, map, input, state, prev_state, output, macro_name,
                 arg, brace_count, cond_count, cond_is_empty, esc, frames, err,
                 stdout, stderr, directive>>

\* preproc_text returns (line 81) and read_file appends the text (lines 468,
\* 472); until the reversal, input holds the string called preprocessed
PreprocReturn ==
  /\ pc = "start" /\ todo # <<>> /\ Head(todo) = <<>>
  /\ input' = input \o pre.out
  /\ pre' = PreprocStart
  /\ todo' = Tail(todo)
  /\ UNCHANGED <<docs, pc, map, state, prev_state, output, macro_name, arg,
                 brace_count, cond_count, cond_is_empty, esc, frames, err,
                 stdout, stderr, directive>>

\* read_file, lines 475-477: reverse the text and call process_str
ReadFile ==
  /\ pc = "start" /\ todo = <<>>
  /\ pc' = "run"
  /\ input' = Reverse(input)
  /\ UNCHANGED <<docs, todo, pre, map, state, prev_state, output, macro_name,
                 arg, brace_count, cond_count, cond_is_empty, esc, frames, err,
                 stdout, stderr, directive>>

\* read_file, lines 467 and 471: a source cannot be read
ReadFileErr ==
  /\ pc = "start" /\ todo # <<>> /\ pre = PreprocStart
  /\ Head(todo) = docs[Len(docs) - Len(todo) + 1]
  /\ pc' = "failed"
  /\ err' = "io"
  /\ UNCHANGED <<docs, todo, pre, map, input, state, prev_state, output, macro_name, arg,
                 brace_count, cond_count, cond_is_empty, esc, frames, stdout,
                 stderr, directive>>

Plain == Popped("Plain") /\ Commit(PlainArm(AfterPop, Top(input)), Top(input))

CallMacro ==
  Popped("CallMacro") /\ Commit(CallMacroArm(AfterPop, Top(input)), Top(input))

DefMacroName ==
  Popped("DefMacroName")
  /\ Commit(DefMacroNameArm(AfterPop, Top(input)), Top(input))

DefArg == Popped("DefArg") /\ Commit(DefArgArm(AfterPop, Top(input)), Top(input))

CustomMacroArg ==
  Popped("CustomMacroArg")
  /\ Commit(CustomMacroArgArm(AfterPop, Top(input)), Top(input))

Undef == Popped("Undef") /\ Commit(UndefArm(AfterPop, Top(input)), Top(input))

Include ==
  /\ Popped("Include")
  /\ \E res \in ReadToString(arg) :
       Commit(IncludeArm(AfterPop, Top(input), res), Top(input))

ExpandAfterArg1 ==
  Popped("ExpandAfterArg1")
  /\ Commit(ExpandAfterArg1Arm(AfterPop, Top(input)), Top(input))

\* the outer close of the second group is reached
ClosesSecondGroup == Top(input) = RB /\ ~esc /\ brace_count - 1 = 0

\* lines 336-357.  At the outer close the call is suspended (after
\* brace_count -= 1) and process_str starts on the reversed second group with
\* fresh locals and the same macro table.
ExpandAfterArg2 ==
  /\ Popped("ExpandAfterArg2")
  /\ IF ClosesSecondGroup
       THEN /\ frames' = Append(frames,
                 [f |-> [AfterPop EXCEPT !.brace_count = brace_count - 1],
                  directive |-> Append(directive, Top(input))])
            /\ SetLocals(NewFrame(map, Reverse(arg)))
            /\ esc' = FALSE
            /\ directive' = <<>>
            /\ UNCHANGED <<docs, todo, pre, pc, err, stdout, stderr>>
       ELSE Commit(ExpandAfterArg2Arm(AfterPop, Top(input)), Top(input))

\* a nested process_str exhausted its input and returns Ok: the suspended
\* caller pushes the result and the first group and ends its iteration
ExpandAfterReturn ==
  /\ pc = "run" /\ input = <<>> /\ frames # <<>>
  /\ EndResult(state, brace_count, esc, output).ok
  /\ LET caller == [frames[Len(frames)].f EXCEPT !.map = map]
         processed == EndResult(state, brace_count, esc, output).out
     IN /\ SetLocals(ExpandAfterPush(caller, processed))
        /\ esc' = NextEscape(RB, caller.esc)
  /\ directive' = frames[Len(frames)].directive
  /\ frames' = SubSeq(frames, 1, Len(frames) - 1)
  /\ UNCHANGED <<docs, todo, pre, pc, err, stdout, stderr>>

IfCond == Popped("IfCond") /\ Commit(IfCondArm(AfterPop, Top(input)), Top(input))

Then == Popped("Then") /\ Commit(ThenArm(AfterPop, Top(input)), Top(input))

Else == Popped("Else") /\ Commit(ElseArm(AfterPop, Top(input)), Top(input))

IfDefCond ==
  Popped("IfDefCond") /\ Commit(IfDefCondArm(AfterPop, Top(input)), Top(input))

\* lines 129-131 and 453-460: the input is exhausted.  The outermost call
\* returns to read_file; an Err of a nested call propagates there as well.
EndOfInput ==
  /\ pc = "run" /\ input = <<>>
  /\ LET r == EndResult(state, brace_count, esc, output) IN
       IF r.ok
         THEN frames = <<>> /\ pc' = "returned" /\ output' = r.out /\ err' = err
         ELSE pc' = "failed" /\ err' = "Incomplete macro." /\ output' = output
  /\ UNCHANGED <<docs, todo, pre, map, input, state, prev_state, macro_name, arg,
                 brace_count, cond_count, cond_is_empty, esc, frames, stdout,
                 stderr, directive>>

\* what read_file prints once process_str returned Ok(output)
Printed(out) == <<out>>

\* read_file, line 478: print!("{}", output)
PrintOutput ==
  /\ pc = "returned"
  /\ stdout' = stdout \o Printed(output)
  /\ pc' = "exit0"
  /\ UNCHANGED <<docs, todo, pre, map, input, state, prev_state, output, macro_name, arg,
                 brace_count, cond_count, cond_is_empty, esc, frames, err,
                 stderr, directive>>

\* mutant: the document built so far is flushed before the diagnostic
DieWritesPartial(out, msg) ==
  [stdout |-> <<out>>, stderr |-> << <<"proj3: ", msg>> >>]

\* lines 11-16: what die! writes, given the document built so far and the
\* message: a diagnostic on standard error, nothing on standard output
DieWrites(out, msg) == [stdout |-> <<>>, stderr |-> << <<"proj3: ", msg>> >>]

\* main, lines 489-491: die!("{}", e)
Die ==
  /\ pc = "failed"
  /\ stderr' = stderr \o DieWrites(output, err).stderr
  /\ stdout' = stdout \o DieWrites(output, err).stdout
  /\ pc' = "exit1"
  /\ UNCHANGED <<docs, todo, pre, map, input, state, prev_state, output, macro_name, arg,
                 brace_count, cond_count, cond_is_empty, esc, frames, err,
                 directive>>

Next ==
  \/ PreprocChar
  \/ PreprocReturn
  \/ ReadFile
  \/ ReadFileErr
  \/ Plain
  \/ CallMacro
  \/ DefMacroName
  \/ DefArg
  \/ CustomMacroArg
  \/ Undef
  \/ Include
  \/ ExpandAfterArg1
  \/ ExpandAfterArg2
  \/ ExpandAfterReturn
  \/ IfCond
  \/ Then
  \/ Else
  \/ IfDefCond
  \/ EndOfInput
  \/ PrintOutput
  \/ Die

Spec == Init /\ [][Next]_vars

\* The program on the texts of PreDocLists.  They hold no brace, so the only
\* steps ever enabled are those of the preprocessor, of read_file and main,
\* and of the Plain and CallMacro modes of the engine.
PreInit ==
  /\ docs \in PreDocLists
  /\ todo = docs
  /\ pre = PreprocStart
  /\ pc = "start"
  /\ map = EmptyMap
  /\ input = <<>>
  /\ state = "Plain"
  /\ prev_state = "Plain"
  /\ output = <<>>
  /\ macro_name = <<>>
  /\ arg = <<>>
  /\ brace_count = 0
  /\ cond_count = 0
  /\ cond_is_empty = FALSE
  /\ esc = FALSE
  /\ frames = <<>>
  /\ err = "none"
  /\ stdout = <<>>
  /\ stderr = <<>>
  /\ directive = <<>>

PreNext ==
  \/ PreprocChar
  \/ PreprocReturn
  \/ ReadFile
  \/ Plain
  \/ CallMacro
  \/ EndOfInput
  \/ PrintOutput
  \/ Die

PreSpec == PreInit /\ [][PreNext]_vars

\* The program is sequential: a step that can be taken is taken.
FairSpec == Spec /\ WF_vars(Next)

\* ------------------------------------------------------------ properties

\* a run ended: either it printed doc's expected output, or it died with msg
Finished == pc \in {"exit0", "exit1"}

\* the outcome of the run on the single document doc, once it has ended (a
\* source that cannot be read is the one outcome a document does not decide)
Yields(doc, out) ==
  (docs = <<doc>> /\ Finished /\ err # "io")
     => (pc = "exit0" /\ stdout = <<out>>)
DiesWith(doc, msg) ==
  (docs = <<doc>> /\ Finished /\ err # "io") => (pc = "exit1" /\ err = msg)

\* the iteration about to run pops the unescaped brace that closes the outer
\* group of mode s
OuterClose(s) ==
  /\ pc = "run" /\ state = s /\ input # <<>>
  /\ Top(input) = RB /\ ~esc /\ brace_count = 1

\* the step pushed text x: it is what will be consumed next, in this order,
\* before the input that was pending
PushedNext(x) == ReadOrder(input') = x \o ReadOrder(Pop(input))

IfConds == CondGroups \cup {<<"x">>}
Branches ==
  {<<>>, <<"y">>, <<"n">>, <<"y","e","s">>, <<"n","o">>, <<"Y">>, <<"Z">>}
MacroNames == {<<"a">>, <<"b">>, <<"m">>, Grp(<<>>)}

\* C1: whenever the else-group of \if{C}{T}{E} closes (C, T, E balanced
\* groups), whatever was processed before, the text pushed for re-scanning is
\* T if C holds at least one scalar and E if C is empty; the documented
\* scenario \if{}{yes}{no}\if{x}{yes}{no} yields noyes.
C1_IfPushesByCondition ==
  [][ /\ (OuterClose("Else") /\ pc' = "run") =>
           \A c \in IfConds, t \in Branches, e \in Branches :
              directive' = IfText(c, t, e) =>
                 PushedNext(IF c = <<>> THEN e ELSE t)
      /\ Yields(Scenario4, <<"n","o","y","e","s">>)' ]_vars

\* C2: whenever the else-group of \ifdef{m}{T}{E} closes, the text pushed for
\* re-scanning is T if m is bound in the macro table and E otherwise (the
\* table is the one the condition saw: no step between changes it); the
\* documented scenario yields YZ.
C2_IfDefPushesByBoundness ==
  [][ /\ (OuterClose("Else") /\ pc' = "run") =>
           \A m \in MacroNames, t \in Branches, e \in Branches :
              directive' = IfDefText(m, t, e) =>
                 PushedNext(IF m \in DOMAIN map THEN t ELSE e)
      /\ (state \in {"Then", "Else"} /\ pc = "run") => map' = map
      /\ Yields(Scenario5, <<"Y","Z">>)' ]_vars

C2_Witness ==
  /\ pc = "run" /\ state = "Plain" /\ prev_state = "Else"
  /\ directive = IfDefText(<<"a">>, <<"y">>, <<"n">>)
  /\ <<"a">> \in DOMAIN map
  /\ input # <<>> /\ Top(input) = "y"

\* C3: closing the body of \def for a bound name fails with "Macro already
\* defined." and leaves the table as it was; a bound name keeps its body in
\* every step, and stops being bound only when \undef of that name closes.
C3_NoRebinding ==
  [][ /\ (OuterClose("DefArg") /\ macro_name \in DOMAIN map) =>
           (pc' = "failed" /\ err' = "Macro already defined." /\ map' = map)
      /\ \A n \in DOMAIN map :
           \/ n \in DOMAIN map' /\ map'[n] = map[n]
           \/ n \notin DOMAIN map' /\ OuterClose("Undef") /\ macro_name = n
      /\ DiesWith(NegRedefine, "Macro already defined.")' ]_vars

C3_Witness ==
  /\ pc = "failed" /\ err = "Macro already defined."
  /\ state = "DefArg" /\ macro_name \in DOMAIN map
  /\ map[macro_name] # arg

\* C4: when \undef{z} closes, a bound z is removed and nothing else changes;
\* an unbound z fails with "Macro not defined." and the table is unchanged.
\* When the argument of a call of an unbound name closes, the run fails with
\* "Macro not defined."; so does \m{x} after \def{m}{B}\undef{m}.
C4_UndefUnbinds ==
  [][ /\ (OuterClose("Undef") /\ macro_name \in DOMAIN map) =>
           (pc' = "run" /\ map' = MapRemove(map, macro_name))
      /\ (OuterClose("Undef") /\ macro_name \notin DOMAIN map) =>
           (pc' = "failed" /\ err' = "Macro not defined." /\ map' = map)
      /\ (OuterClose("CustomMacroArg") /\ macro_name \notin DOMAIN map) =>
           (pc' = "failed" /\ err' = "Macro not defined." /\ map' = map)
      /\ DiesWith(UndefThenCall, "Macro not defined.")'
      /\ DiesWith(NegUndef, "Macro not defined.")' ]_vars

C4_Witness ==
  /\ docs = <<UndefThenCall>>
  /\ pc = "failed" /\ err = "Macro not defined."
  /\ state = "CustomMacroArg" /\ macro_name = <<"m">>
  /\ map = EmptyMap

\* the step in which a nested expansion returns to \expandafter
ExpandAfterReturns ==
  pc = "run" /\ input = <<>> /\ frames # <<>> /\ pc' = "run"
  /\ Len(frames') < Len(frames)

\* C5 as stated: when \expandafter{\m}{B} resumes, for a bound m and B
\* expanded to X, the engine goes on as it would on \m{X}; the documented
\* scenario \def{id}{#}\expandafter{\id}{raw} yields raw.
C5_ExpandAfterAsArgument ==
  [][ /\ ExpandAfterReturns =>
           \A m \in DOMAIN map :
              frames[Len(frames)].f.macro_name = Name(m) =>
                 ReadOrder(input') =
                    CallText(m, EndResult(state, brace_count, esc, output).out)
                    \o ReadOrder(frames[Len(frames)].f.input)
      /\ Yields(Scenario6, <<"r","a","w">>)' ]_vars

\* C5 amended: when \expandafter{A}{B} resumes, with B expanded to X, the
\* engine goes on as it would on A immediately followed by X, no braces
\* added: \def{id}{#}\expandafter{\id}{raw} reads the name idraw and fails
\* with "Incomplete macro.", and \def{id}{#}\expandafter{\id}{{raw}} yields
\* raw.
C5_ExpandAfterJuxtaposes ==
  [][ /\ ExpandAfterReturns =>
           /\ ReadOrder(input') =
                 frames[Len(frames)].f.macro_name
                 \o EndResult(state, brace_count, esc, output).out
                 \o ReadOrder(frames[Len(frames)].f.input)
           /\ state' = "Plain" /\ macro_name' = <<>> /\ arg' = <<>>
      /\ DiesWith(Scenario6, "Incomplete macro.")'
      /\ Yields(Scenario6Braced, <<"r","a","w">>)' ]_vars

C5_Witness ==
  /\ docs = <<Scenario6Braced>>
  /\ pc = "run" /\ state = "Plain" /\ prev_state = "ExpandAfterArg2"
  /\ frames = <<>>
  /\ ReadOrder(input) = CallText(<<"i","d">>, <<"r","a","w">>)

\* C6: when the argument of a call of a bound macro closes, the substituted
\* body is what the engine consumes next, in left-to-right order and before
\* the input that was pending, back in Plain mode, so that it is scanned as
\* source text: \def{a}{A}\def{b}{\a{}}\b{} yields A.
C6_BodyIsNextText ==
  [][ /\ (OuterClose("CustomMacroArg") /\ macro_name \in DOMAIN map) =>
           /\ pc' = "run" /\ state' = "Plain" /\ ~esc'
           /\ PushedNext(expand_macro(map, macro_name, arg))
           /\ output' = output
      /\ Yields(Scenario2, <<"A">>)' ]_vars

C6_Witness ==
  /\ docs = <<Scenario2>>
  /\ pc = "run" /\ state = "Plain" /\ prev_state = "CustomMacroArg"
  /\ ReadOrder(input) = CallText(<<"a">>, <<>>)

\* the number of backslashes that end right before position i of body
BackslashRun(body, i) ==
  Cardinality({k \in 1..(i - 1) : \A j \in (i - k)..(i - 1) : body[j] = BS})

RECURSIVE Flatten(_)
Flatten(ss) == IF ss = <<>> THEN <<>> ELSE Head(ss) \o Flatten(Tail(ss))

\* body with each # that an even number of backslashes precedes replaced by a
Substituted(body, a) ==
  Flatten([i \in 1..Len(body) |->
             IF body[i] = HASH /\ BackslashRun(body, i) % 2 = 0
               THEN a ELSE <<body[i]>>])

EscapedHashCall ==
  DefText(<<"a">>, <<HASH, BS, HASH>>) \o CallText(<<"a">>, <<"b">>)

\* C7: when the argument of \m{arg} closes for a bound m, the text pushed is
\* the body of m with every unescaped # replaced by the argument as written
\* between the braces, every other scalar kept; an escaped # is kept with its
\* backslash and comes out as #: \def{a}{#\#}\a{b} yields b#, and
\* \def{greet}{Hello, #!}\greet{world} yields Hello, world!.
C7_Substitution ==
  [][ /\ (OuterClose("CustomMacroArg") /\ macro_name \in DOMAIN map) =>
           PushedNext(Substituted(map[macro_name],
                        SubSeq(directive', Len(macro_name) + 3,
                               Len(directive') - 1)))
      /\ Yields(EscapedHashCall, <<"b", HASH>>)'
      /\ Yields(Scenario1,
                <<"H","e","l","l","o",",",SP,"w","o","r","l","d","!">>)' ]_vars

C7_Witness ==
  /\ docs = <<EscapedHashCall>>
  /\ pc = "run" /\ state = "Plain" /\ prev_state = "CustomMacroArg"
  /\ ReadOrder(input) = <<"b", BS, HASH>>

\* C8: in Plain mode an unescaped backslash appends nothing and makes the
\* next scalar escaped; if that scalar is one of \ # % { } it alone is
\* appended, if it is another non-alphanumeric scalar the backslash and it
\* are appended; either way the engine is back in Plain mode, no name
\* captured, brace depth unchanged.
C8_EscapeSet ==
  [][ /\ (pc = "run" /\ state = "Plain" /\ input # <<>> /\ Top(input) = BS
          /\ ~esc) =>
           (state' = "CallMacro" /\ esc' /\ output' = output
            /\ macro_name' = <<>>)
      /\ (pc = "run" /\ state = "CallMacro" /\ input # <<>> /\ esc
          /\ ~IsAlphanumeric(Top(input))) =>
           /\ output' = IF Top(input) \in {BS, HASH, PCT, LB, RB}
                          THEN Append(output, Top(input))
                          ELSE output \o <<BS, Top(input)>>
           /\ pc' = "run" /\ state' = "Plain"
           /\ macro_name' = <<>> /\ brace_count' = brace_count
      /\ \A u \in {BS, HASH, PCT, LB, RB} : Yields(<<BS, u>>, <<u>>)'
      /\ Yields(<<BS, "!">>, <<BS, "!">>)' ]_vars

C8_Witness ==
  /\ docs = << <<BS, PCT>> >>
  /\ pc = "run" /\ state = "Plain" /\ prev_state = "CallMacro"
  /\ output = <<PCT>> /\ macro_name = <<>> /\ brace_count = 0

\* the configurations in which exhausted input is a success
EndsWell ==
  \/ state = "Plain" /\ brace_count = 0
  \/ state = "CallMacro" /\ esc

\* C9: when a call of the engine finds its input exhausted, it succeeds iff
\* it is in Plain mode at depth 0, or in CallMacro with a pending escape, and
\* then its result is its output, with one backslash appended in the second
\* case; in every other configuration the run fails with "Incomplete
\* macro.", as \def{a}{x does.
C9_EndOfInput ==
  [][ /\ (pc = "run" /\ input = <<>> /\ ~EndsWell) =>
           (pc' = "failed" /\ err' = "Incomplete macro.")
      /\ (pc = "run" /\ input = <<>> /\ EndsWell /\ frames = <<>>) =>
           /\ pc' = "returned"
           /\ output' = IF state = "CallMacro" THEN Append(output, BS)
                        ELSE output
      /\ (pc = "run" /\ input = <<>> /\ EndsWell /\ frames # <<>>) =>
           /\ pc' = "run"
           /\ ReadOrder(input') =
                 frames[Len(frames)].f.macro_name
                 \o (IF state = "CallMacro" THEN Append(output, BS)
                     ELSE output)
                 \o ReadOrder(frames[Len(frames)].f.input)
      /\ DiesWith(NegIncomplete, "Incomplete macro.")'
      /\ Yields(<<"a", BS>>, <<"a", BS>>)' ]_vars

C9_Witness ==
  /\ docs = << <<"a", BS>> >>
  /\ pc = "returned" /\ state = "CallMacro" /\ esc
  /\ output = <<"a", BS>>

\* C10: standard output is written once, by the step that follows the
\* successful return of the engine, and holds the engine's output; once a
\* run has failed (in the outermost or in a nested call) nothing but the
\* diagnostic follows, and standard output stays empty.
C10_SingleEmission ==
  [][ /\ stdout' # stdout =>
           (pc = "returned" /\ err = "none" /\ stdout = <<>>
            /\ stdout' = <<output>> /\ pc' = "exit0")
      /\ pc' = "exit0" => Len(stdout') = 1
      /\ pc' \in {"failed", "exit1"} => (stdout' = <<>> /\ err' # "none")
      /\ pc = "failed" =>
           (pc' = "exit1" /\ stdout' = <<>>
            /\ stderr' = << <<"proj3: ", err>> >>
            /\ UNCHANGED <<map, input, output, state, frames>>) ]_vars

C10_Witness ==
  /\ pc = "exit1" /\ err = "Macro not defined."
  /\ frames # <<>> /\ frames[1].f.output # <<>>
  /\ stdout = <<>> /\ Len(stderr) = 1

\* ------------------------------------------------------------ preprocessor

\* the characters of the source that preproc_text has gone through
Scanned == SubSeq(docs[1], 1, Len(docs[1]) - Len(Head(todo)))

\* preproc_text is about to take character c of the source
Scans(c) ==
  pc = "start" /\ todo # <<>> /\ Head(todo) # <<>> /\ Head(Head(todo)) = c

\* the next character follows an odd run of backslashes: the last of them is
\* an escaping backslash
AfterEscapingBackslash == BackslashRun(Scanned, Len(Scanned) + 1) % 2 = 1

\* every % of text follows an escaping backslash
NoUnescapedPercent(text) ==
  \A i \in 1..Len(text) :
     text[i] = PCT => BackslashRun(text, i) % 2 = 1

\* C11: at every position of the source outside a comment, a % that follows
\* an escaping backslash is copied to the preprocessed text right after its
\* backslash and starts no comment; the source \% is printed as %.
C11_EscapedPercentSurvives ==
  [][ /\ (Scans(PCT) /\ pre.state # "CommentLine1" /\ AfterEscapingBackslash) =>
           /\ pre'.state = "Plain"
           /\ pre.out # <<>> /\ pre.out[Len(pre.out)] = BS
           /\ pre'.out = Append(pre.out, PCT)
      /\ Yields(<<BS, PCT>>, <<PCT>>)' ]_vars

\* C12: for A % comment, a newline, two spaces and B, the preprocessed text
\* handed to the engine is AB, and AB is what the program prints.
C12_CommentExample ==
  [][ /\ (docs = <<Scenario3Full>> /\ pc = "start" /\ pc' = "run") =>
           ReadOrder(input') = <<"A", "B">>
      /\ Yields(Scenario3Full, <<"A", "B">>)' ]_vars

\* C12 amended: a space outside a comment is copied, the spaces that lead
\* the line after a comment are dropped, and the text of a comment is
\* dropped through its newline; so for A % comment, a newline, two spaces
\* and B the text handed to the engine, and printed, is A, a space, B.
C12_CommentExampleKeepsSpace ==
  [][ /\ (Scans(SP) /\ pre.state = "Plain") => pre'.out = Append(pre.out, SP)
      /\ (Scans(SP) /\ pre.state = "CommentLine2") =>
           (pre'.out = pre.out /\ pre'.state = "CommentLine2")
      /\ (pc = "start" /\ pre.state = "CommentLine1" /\ todo # <<>>
          /\ Head(todo) # <<>>) => pre'.out = pre.out
      /\ (docs = <<Scenario3Full>> /\ pc = "start" /\ pc' = "run") =>
           ReadOrder(input') = <<"A", SP, "B">>
      /\ Yields(Scenario3Full, <<"A", SP, "B">>)' ]_vars

C12_Witness ==
  /\ docs = <<Scenario3Full>>
  /\ pc = "exit0" /\ stdout = << <<"A", SP, "B">> >>

\* C13: the preprocessed text never holds an unescaped %: in the text built
\* so far, and in the text handed to the engine, every % follows an escaping
\* backslash.
C13_NoCommentSurvives ==
  /\ NoUnescapedPercent(pre.out)
  /\ (pc = "start" /\ todo = <<>>) => NoUnescapedPercent(input)

\* ------------------------------------------------------------ brace depth

\* C14: the brace depth of the running call of the engine, and of every
\* suspended one, is never negative.
C14_DepthNonNegative ==
  /\ brace_count >= 0
  /\ \A i \in 1..Len(frames) : frames[i].f.brace_count >= 0

\* ------------------------------------------------------------ names

\* a nonempty sequence of alphanumeric scalars
IsName(n) == n # <<>> /\ \A i \in 1..Len(n) : IsAlphanumeric(n[i])

\* C15: every name bound in the macro table is a nonempty sequence of
\* alphanumeric scalars.
C15_BoundNamesAreNames == \A n \in DOMAIN map : IsName(n)

\* ------------------------------------------------------------ branches

\* the iteration about to run consumes the first scalar after the close of
\* the condition group (in Then) or of the then-group (in Else)
FirstAfterClose ==
  /\ pc = "run" /\ input # <<>>
  /\ \/ state = "Then" /\ prev_state \in {"IfCond", "IfDefCond"}
     \/ state = "Else" /\ prev_state = "Then"

\* C16: if the scalar consumed right after the condition group, or right
\* after the then-group, closes is not an unescaped {, the run fails with
\* "Incomplete macro." and nothing is pushed.
C16_BranchesMandatory ==
  [][ (FirstAfterClose /\ ~(Top(input) = LB /\ ~esc)) =>
         (pc' = "failed" /\ err' = "Incomplete macro."
          /\ input' = Pop(input)) ]_vars

\* the iteration about to run consumes a scalar where a name is expected, and
\* the scalar is not the brace that ends the name
ReadsNameScalar ==
  /\ pc = "run" /\ input # <<>>
  /\ \/ state = "CallMacro" /\ ~esc /\ Top(input) # LB
     \/ state \in {"DefMacroName", "Undef", "IfDefCond"} /\ Top(input) # RB

\* C17: where a name is expected, a non-alphanumeric scalar other than the
\* delimiting brace ends the run with an error; and when a directive that
\* takes a name is executed, its name holds alphanumeric scalars only.
C17_NamesAreAlphanumeric ==
  [][ /\ (ReadsNameScalar /\ ~IsAlphanumeric(Top(input))) => pc' = "failed"
      /\ \A s \in {"DefArg", "Undef", "IfDefCond", "CustomMacroArg"} :
           (OuterClose(s) /\ pc' = "run") =>
              \A i \in 1..Len(macro_name) : IsAlphanumeric(macro_name[i]) ]_vars

\* ------------------------------------------------------------ \expandafter

\* the first and second groups of the \expandafter directives of the
\* documents
FirstGroups ==
  {<<>>, Name(<<"a">>), Name(<<"i","d">>), CallText(<<"a">>, <<>>),
   IfDefText(<<"a">>, <<"y">>, <<"n">>)}
SecondGroups ==
  {<<"b">>, UndefText(<<"a">>), <<"r","a","w">>, Grp(<<"r","a","w">>),
   DefText(<<"a">>, <<"A">>), IfText(<<>>, <<"y">>, <<"n">>)}

\* the step in which the second group of \expandafter closes and the nested
\* call starts
ExpandAfterCalls ==
  pc = "run" /\ input # <<>> /\ state = "ExpandAfterArg2"
  /\ ClosesSecondGroup /\ pc' = "run"

\* C18: when the second group of \expandafter{A}{B} closes, a nested call of
\* the engine starts on B, as written, with fresh locals and the macro table
\* as it is, the caller waiting with the input that followed the directive;
\* while it waits the caller is not touched; the nested call returns when B
\* is exhausted, and then the caller goes on, in Plain mode and with the
\* table as the nested call left it, with A as written, immediately followed
\* by the result of B, followed by the input that followed the directive.
\* \expandafter{\a{}}{\def{a}{A}} yields A.
C18_ExpandAfterOrder ==
  [][ /\ ExpandAfterCalls =>
           /\ \A a \in FirstGroups, b \in SecondGroups :
                 Append(directive, RB) = ExpandAfterText(a, b) =>
                    ReadOrder(input') = b
           /\ Len(frames') = Len(frames) + 1
           /\ frames'[Len(frames')].f.input = Pop(input)
           /\ map' = map /\ state' = "Plain" /\ output' = <<>>
           /\ brace_count' = 0 /\ ~esc'
      /\ (frames # <<>> /\ Len(frames') >= Len(frames)) =>
           SubSeq(frames', 1, Len(frames)) = frames
      /\ ExpandAfterReturns =>
           /\ \A a \in FirstGroups, b \in SecondGroups :
                 directive' = ExpandAfterText(a, b) =>
                    ReadOrder(input') =
                       a \o EndResult(state, brace_count, esc, output).out
                       \o ReadOrder(frames[Len(frames)].f.input)
           /\ map' = map /\ state' = "Plain"
           /\ output' = frames[Len(frames)].f.output
      /\ Yields(ExpandAfterDefines, <<"A">>)' ]_vars

C18_Witness ==
  /\ docs = <<ExpandAfterDefines>>
  /\ pc = "run" /\ state = "Plain" /\ prev_state = "ExpandAfterArg2"
  /\ frames = <<>> /\ <<"a">> \in DOMAIN map
  /\ directive = ExpandAfterDefines
  /\ ReadOrder(input) = CallText(<<"a">>, <<>>)

\* ------------------------------------------------------------ scratch state

\* C19: whenever the engine is in Plain mode, the captured name and the
\* captured argument are empty and the condition counter is 0.
C19_PlainIsClean ==
  (pc = "run" /\ state = "Plain") =>
     (macro_name = <<>> /\ arg = <<>> /\ cond_count = 0)

\* ------------------------------------------------------------ termination

\* The scalars a call of the engine at nesting depth d still holds: its
\* input, its captured name and argument and, for a nested call, its output
\* (which goes back to the input of its caller).  Size counts them; Phase
\* weighs them by where they are, each place lighter than the one a scalar
\* comes from: input, then captured text, then the input of the call nested
\* one deeper, then its output.
CallSize(inp, mn, ar, out, d) ==
  Len(inp) + Len(mn) + Len(ar) + (IF d > 0 THEN Len(out) ELSE 0)

CallPhase(inp, mn, ar, out, d) ==
  Len(inp) * (3 - 4 * d) + (Len(mn) + Len(ar)) * (2 - 4 * d)
  + (IF d > 0 THEN Len(out) * (1 - 4 * d) ELSE 0)

\* the same over the first i suspended calls (their second group has been
\* handed to the nested call)
RECURSIVE SuspendedSize(_, _)
SuspendedSize(fr, i) ==
  IF i = 0 THEN 0
  ELSE CallSize(fr[i].f.input, fr[i].f.macro_name, <<>>, fr[i].f.output, i - 1)
       + SuspendedSize(fr, i - 1)

RECURSIVE SuspendedPhase(_, _)
SuspendedPhase(fr, i) ==
  IF i = 0 THEN 0
  ELSE CallPhase(fr[i].f.input, fr[i].f.macro_name, <<>>, fr[i].f.output, i - 1)
       + (2 - 4 * (i - 1)) + SuspendedPhase(fr, i - 1)

\* the scalars held by all calls, one for each suspended call (the close it
\* is at) and one for a pending escaping backslash, both weighing as
\* captured text
Size ==
  Len(frames) + (IF state = "CallMacro" /\ esc THEN 1 ELSE 0)
  + CallSize(input, macro_name, arg, output, Len(frames))
  + SuspendedSize(frames, Len(frames))

Phase ==
  CallPhase(input, macro_name, arg, output, Len(frames))
  + (IF state = "CallMacro" /\ esc THEN 2 - 4 * Len(frames) ELSE 0)
  + SuspendedPhase(frames, Len(frames))

\* a step of the engine that neither ends the run, nor executes \include,
\* with the macro table empty before and after
EmptyTableStep ==
  /\ pc = "run" /\ pc' = "run"
  /\ map = EmptyMap /\ map' = EmptyMap
  /\ ~(state = "Include" /\ state' = "Plain")

\* the run ended, or it bound a macro, or it has just executed \include
EndedOrGrew ==
  \/ Finished
  \/ map # EmptyMap
  \/ pc = "run" /\ state = "Plain" /\ prev_state = "Include"

\* C20: a branch pushed by \if or \ifdef is strictly shorter than the text of
\* the directive; every step of the engine taken with an empty macro table
\* that is not the execution of \include makes the pair (Size, Phase)
\* smaller in the lexicographic order, Size being at least 0, so no run can
\* go on for ever that way: every run ends, with an output or an error,
\* unless it binds a macro or executes \include.
C20_TerminatesOnEmptyTable ==
  /\ [][ /\ (OuterClose("Else") /\ pc' = "run") =>
              (Len(macro_name) < Len(directive')
               /\ Len(input') = Len(Pop(input)) + Len(macro_name))
         /\ EmptyTableStep =>
              (Size' < Size \/ (Size' = Size /\ Phase' < Phase))
         /\ Size >= 0 ]_vars
  /\ <>EndedOrGrew

C20_Witness ==
  /\ docs = <<PushesOnEmptyTable>>
  /\ pc = "exit0" /\ stdout = << <<"n", "n">> >>
  /\ map = EmptyMap

====
